---- MODULE Spec2Model ----
(***************************************************************************)
(* ExperiPulse notification relay.                                         *)
(*                                                                         *)
(* Two operating-system processes share one SQLite file:                   *)
(*   - the API server (src/server/api.py), one uvicorn event loop whose    *)
(*     handlers never suspend, so it serves one request at a time;         *)
(*   - the Telegram bot (src/bot/telegram_bot.py), handling /start and     *)
(*     /revoke.                                                            *)
(* Every SQL statement run outside a transaction (the SELECTs) and every   *)
(* write transaction (UPDATE/INSERT up to its commit) is one atomic step;  *)
(* the processes interleave between those steps.                           *)
(***************************************************************************)
EXTENDS Integers, Sequences, FiniteSets, TLC

(* ------------------------------ bounds --------------------------------- *)

\* Keys generate_api_key hands out in one behaviour.
MaxKeys == 2
\* Ticks of the wall clock.
MaxClock == 1
\* Rows the notifications table may hold before new notify calls stop.
MaxLog == 2

\* Telegram user ids (operator_id) and chat ids (chat_destination).
Operators == {1, 2}
Chats == {10, 20}
\* Request bodies of notify: message (pydantic `str`, the empty string
\* included) and metadata (None, the empty dict, a non-empty dict).
Bodies == {[message |-> "hi", metadata |-> "None"],
           [message |-> "", metadata |-> "{}"],
           [message |-> "hi", metadata |-> "{k:v}"]}
\* What the messaging platform may do with one requests.post call.
PlatformOutcomes == {"200", "400", "timeout", "refused"}
\* Offset of the host's local time (datetime.now()) from UTC (CURRENT_TIMESTAMP).
TZOffsets == {-1, 0, 1}
\* Bot workers: "b1" is the bot process of the deployment, "b2" a second
\* poller started against the same database file.
Bots == {"b1", "b2"}

Ops == {"notify", "validate", "heartbeat"}

\* The endpoints whose handler is the authentication dependency alone.
Probes == {"validate", "heartbeat"}

VARIABLES
    users,      \* table users: set of rows
    log,        \* table notifications: sequence of rows, in id order
    clock,      \* UTC wall clock
    tz,         \* local-time offset of the hosts
    nkeys,      \* number of tokens secrets.token_urlsafe has produced
    apc,        \* API server: position in the current request
    req,        \* API server: the request being served (kept after the response)
    user,       \* API server: the dict get_current_user returned
    success,    \* API server: send_telegram_message's result
    resp,       \* API server: the response of the request
    outbox,     \* the last sendMessage call made to the platform
    attempts,   \* sendMessage calls made by the current request
    writes,     \* outcome of each log_notification call of the current request
    log0,       \* Len(log) when the current request arrived
    path,       \* history: the request states the current request has entered
    hauth,      \* history: what the stores held for the request's key at its SELECT
    bpc,        \* bot worker: position in the current command
    bcmd,       \* bot worker: the /start being handled by get_or_create_user
    bsel,       \* bot worker: api_key read by get_or_create_user's SELECT (0: None)
    bres,       \* bot worker: the finished command and the key it replies with
    owner,      \* history: the operator each key was stored for (0: none)
    rotated,    \* history: keys overwritten by a committed rotation
    lastChat    \* history: chat id of the last committed /start of each operator

store == <<users, log>>
env == <<clock, tz, nkeys>>
api == <<apc, req, user, success, resp, outbox, attempts, writes, log0, path, hauth>>
bot == <<bpc, bcmd, bsel, bres>>
hist == <<owner, rotated, lastChat>>
vars == <<users, log, clock, tz, nkeys, apc, req, user, success, resp, outbox,
          attempts, writes, log0, path, hauth, bpc, bcmd, bsel, bres, owner, rotated, lastChat>>

(* ------------------------- values and helpers -------------------------- *)

NoBody == [message |-> "hi", metadata |-> "None"]
NoReq == [op |-> "none", key |-> 0, message |-> "hi", metadata |-> "None"]
NoUser == [user_id |-> 0, chat_id |-> 0, last_active |-> 0]
NoData == [user_id |-> 0, last_active |-> 0]
NoResp == [status |-> 0, success |-> FALSE, data |-> NoData]
NoSend == [chat_id |-> 0, text |-> <<>>, outcome |-> "none"]
NoAuth == [sel |-> "pending", row_user |-> 0, row_chat |-> 0, row_active |-> 0,
           hist_user |-> 0,
           hist_chat |-> 0, revoked |-> FALSE, renewed |-> FALSE]
NoCmd == [cmd |-> "none", user_id |-> 0, chat_id |-> 0]
NoRes == [cmd |-> "none", user_id |-> 0, chat_id |-> 0, key |-> 0, new |-> FALSE,
          ok |-> FALSE]

\* datetime.now(): naive local time.
Now == clock + tz
\* CURRENT_TIMESTAMP: UTC.
CurrentTimestamp == clock

ApiResponse(ok, data) == [status |-> 200, success |-> ok, data |-> data]
HTTPException(code) == [status |-> code, success |-> FALSE, data |-> NoData]

(* ------------------------------ schema --------------------------------- *)

\* Mutant: user_id declared without PRIMARY KEY.
UsersConstraints_NoPrimaryKey(tbl) ==
    \A r1, r2 \in tbl : r1.api_key = r2.api_key => r1 = r2

\* users: user_id INTEGER PRIMARY KEY, api_key TEXT UNIQUE NOT NULL.
UsersConstraints(tbl) ==
    /\ \A r1, r2 \in tbl : r1.user_id = r2.user_id => r1 = r2
    /\ \A r1, r2 \in tbl : r1.api_key = r2.api_key => r1 = r2

\* A write that breaks a constraint raises IntegrityError and changes nothing.
Constrained(before, after) == IF UsersConstraints(after) THEN after ELSE before

(* ------------------------- the bot's statements ------------------------ *)

\* secrets.token_urlsafe(16): 128 random bits, modelled as a token that never
\* repeats; n tokens have been produced so far.
generate_api_key(n) == n + 1

\* SELECT api_key FROM users WHERE user_id = ?  (fetchone; 0 stands for None)
SelectKeyByUser(tbl, uid) ==
    IF \E r \in tbl : r.user_id = uid
    THEN (CHOOSE r \in tbl : r.user_id = uid).api_key
    ELSE 0

\* Mutant: the touch written as INSERT OR REPLACE, which makes the row anew.
UpdateChat_Replace(tbl, uid, chat, now) ==
    {IF r.user_id = uid
     THEN [r EXCEPT !.chat_id = chat, !.last_active = now, !.created_at = now]
     ELSE r : r \in tbl}

\* UPDATE users SET chat_id = ?, last_active = ? WHERE user_id = ?
UpdateChat(tbl, uid, chat, now) ==
    {IF r.user_id = uid THEN [r EXCEPT !.chat_id = chat, !.last_active = now] ELSE r
        : r \in tbl}

\* INSERT INTO users (user_id, api_key, chat_id) VALUES (?, ?, ?)
InsertUser(tbl, uid, key, chat, ts) ==
    Constrained(tbl, tbl \cup {[user_id |-> uid, api_key |-> key, chat_id |-> chat,
                                created_at |-> ts, last_active |-> ts]})

\* Mutant: the rotation written as an upsert, which registers an unknown operator.
UpdateApiKey_Upsert(tbl, uid, key, now) ==
    IF \E r \in tbl : r.user_id = uid
    THEN {IF r.user_id = uid THEN [r EXCEPT !.api_key = key, !.last_active = now] ELSE r
            : r \in tbl}
    ELSE tbl \cup {[user_id |-> uid, api_key |-> key, chat_id |-> 0,
                    created_at |-> now, last_active |-> now]}

\* Mutant: the rotation that also clears the chat id.
UpdateApiKey_ClearsChat(tbl, uid, key, now) ==
    {IF r.user_id = uid
     THEN [r EXCEPT !.api_key = key, !.last_active = now, !.chat_id = 0]
     ELSE r : r \in tbl}

\* Mutant: the rotation that forgets to SET api_key.
UpdateApiKey_KeepKey(tbl, uid, key, now) ==
    {IF r.user_id = uid THEN [r EXCEPT !.last_active = now] ELSE r : r \in tbl}

\* UPDATE users SET api_key = ?, last_active = ? WHERE user_id = ?
UpdateApiKey(tbl, uid, key, now) ==
    Constrained(tbl,
        {IF r.user_id = uid THEN [r EXCEPT !.api_key = key, !.last_active = now] ELSE r
            : r \in tbl})

\* Mutant: a connection that is left without committing.
ConnExit_NoCommit(committed, pending, raised) == committed

\* Leaving `with sqlite3.connect(...) as conn`: the open transaction is
\* committed, or rolled back when the body raised.
ConnExit(committed, pending, raised) == IF raised THEN committed ELSE pending

(* ---------------------- the API server's statements -------------------- *)

\* Mutant: the SELECT comparing with >= instead of =.
SelectByKey_AtLeast(tbl, key) == {r \in tbl : r.api_key >= key}

\* Mutant: the SELECT without its WHERE clause.
SelectByKey_NoWhere(tbl, key) == tbl

\* SELECT user_id, chat_id, last_active FROM users WHERE api_key = ?
SelectByKey(tbl, key) == {r \in tbl : r.api_key = key}

\* Mutant: created_at selected in place of last_active.
UserDict_CreatedAsActive(r) ==
    [user_id |-> r.user_id, chat_id |-> r.chat_id, last_active |-> r.created_at]

\* Mutant: the fetched columns unpacked in the wrong order.
UserDict_ChatAsUser(r) ==
    [user_id |-> r.chat_id, chat_id |-> r.user_id, last_active |-> r.last_active]

\* The dict get_user_by_api_key returns for the row it fetched.
UserDict(r) == [user_id |-> r.user_id, chat_id |-> r.chat_id, last_active |-> r.last_active]

\* Mutant: the touch that also resets created_at.
TouchByKey_AlsoCreated(tbl, key, now) ==
    {IF r.api_key = key THEN [r EXCEPT !.last_active = now, !.created_at = now] ELSE r
        : r \in tbl}

\* UPDATE users SET last_active = ? WHERE api_key = ?
TouchByKey(tbl, key, now) ==
    {IF r.api_key = key THEN [r EXCEPT !.last_active = now] ELSE r : r \in tbl}

\* The banner send_telegram_message puts before the text.
FormatMessage(message) == <<"Experiment Notification", message>>

\* requests.post(url, json=payload, timeout=10): the platform's answer, or the
\* exception requests raises when the connection fails or the 10 seconds pass.
requests_post(outcome) ==
    CASE outcome = "timeout" -> [raised |-> "Timeout", status_code |-> 0]
      [] outcome = "refused" -> [raised |-> "ConnectionError", status_code |-> 0]
      [] outcome = "200" -> [raised |-> "none", status_code |-> 200]
      [] OTHER -> [raised |-> "none", status_code |-> 400]

\* Mutant: send_telegram_message catching requests.Timeout only.
SendCatches_TimeoutOnly(exc) == exc = "Timeout"

\* `except Exception as e` of send_telegram_message: requests' exceptions are
\* subclasses of Exception.
SendCatches(exc) == exc \in {"Timeout", "ConnectionError"}

\* send_telegram_message: status_code == 200 in the try block, False in the
\* except block; `raised` is the exception that leaves the function, if any.
send_telegram_message(outcome) ==
    LET response == requests_post(outcome) IN
    IF response.raised = "none"
    THEN [raised |-> "none", value |-> response.status_code = 200]
    ELSE IF SendCatches(response.raised)
         THEN [raised |-> "none", value |-> FALSE]
         ELSE [raised |-> response.raised, value |-> FALSE]

\* Mutant: a failed send parks the request until a retry is scheduled.
AfterSend_AwaitRetry(ok) == IF ok THEN "log" ELSE "backoff"

\* Mutant: a failed send is tried again.
AfterSend_RetryOnFailure(ok) == IF ok THEN "log" ELSE "send"

\* Where send_notification goes once the send call has returned: on to the
\* log_notification call, whatever the result.
AfterSend(ok) == "log"

\* json.dumps(metadata) if metadata else None
StoredMetadata(metadata) ==
    IF metadata \in {"None", "{}"} THEN <<"NULL">> ELSE <<"json", metadata>>

\* Mutant: the INSERT that leaves user_id out (NULL, here 0).
log_notification_NoUser(lg, uid, message, metadata, status) ==
    Append(lg, [id |-> Len(lg) + 1, user_id |-> 0, message |-> message,
                metadata |-> StoredMetadata(metadata), status |-> status])

\* Mutant: INSERT OR REPLACE under a fixed id.
log_notification_Replace(lg, uid, message, metadata, status) ==
    <<[id |-> 1, user_id |-> uid, message |-> message,
       metadata |-> StoredMetadata(metadata), status |-> status]>>

\* INSERT INTO notifications (user_id, message, metadata, status); id AUTOINCREMENT
log_notification(lg, uid, message, metadata, status) ==
    Append(lg, [id |-> Len(lg) + 1, user_id |-> uid, message |-> message,
                metadata |-> StoredMetadata(metadata), status |-> status])

\* Mutant: the two statuses the wrong way round.
NotifyStatus_Inverted(ok) == IF ok THEN "failed" ELSE "sent"

\* "sent" if success else "failed"
NotifyStatus(ok) == IF ok THEN "sent" ELSE "failed"

\* Mutant: log_notification swallows its own write error.
TryOutcome_SwallowWriteError(written, ok) == IF ok THEN "return" ELSE "HTTPException"

\* How the try block of send_notification ends after the send call: the
\* log_notification call raises when the write fails; otherwise the block
\* returns the success envelope or raises HTTPException(500).
TryOutcome(written, ok) ==
    IF ~written THEN "sqlite3.Error" ELSE IF ok THEN "return" ELSE "HTTPException"

\* Mutant: send_notification catching HTTPException only.
ExceptCatches_HTTPOnly(exc) == exc = "HTTPException"

\* `except Exception` of send_notification: HTTPException and the sqlite3
\* errors are both subclasses of Exception.
ExceptCatches(exc) == exc \in {"HTTPException", "sqlite3.Error"}

(* ------------------------------ history -------------------------------- *)

\* The operator the history says holds key k now (0: nobody).
Holder(k) == IF k \in DOMAIN owner /\ k \notin rotated THEN owner[k] ELSE 0

\* What the stores and the history say about key k at the instant of a lookup:
\* the row carrying it (row_*), the operator holding it and the chat of that
\* operator's last /start (hist_*), whether a rotation overwrote it (revoked)
\* and whether a rotation produced it (renewed).
Observed(k) ==
    LET rows == {r \in users : r.api_key = k}
        row == CHOOSE r \in rows : TRUE
    IN [sel |-> "done",
        row_user |-> IF rows = {} THEN 0 ELSE row.user_id,
        row_chat |-> IF rows = {} THEN 0 ELSE row.chat_id,
        row_active |-> IF rows = {} THEN 0 ELSE row.last_active,
        hist_user |-> Holder(k),
        hist_chat |-> IF Holder(k) = 0 THEN 0 ELSE lastChat[Holder(k)],
        revoked |-> k \in rotated,
        renewed |-> Holder(k) # 0 /\ \E j \in rotated : owner[j] = Holder(k)]

(* ------------------------------- Init ---------------------------------- *)

\* Both processes started on a database file whose users table holds rows, on
\* a host whose local time is UTC + tz, tz in zones.
Start(zones, rows) ==
    /\ users = rows
    /\ log = <<>>
    /\ clock = 0
    /\ tz \in zones
    /\ nkeys = 0
    /\ apc = "idle"
    /\ req = NoReq
    /\ user = NoUser
    /\ success = FALSE
    /\ resp = NoResp
    /\ outbox = NoSend
    /\ attempts = 0
    /\ writes = <<>>
    /\ log0 = 0
    /\ path = <<>>
    /\ hauth = NoAuth
    /\ bpc = [b \in Bots |-> "idle"]
    /\ bcmd = [b \in Bots |-> NoCmd]
    /\ bsel = [b \in Bots |-> 0]
    /\ bres = [b \in Bots |-> NoRes]
    /\ owner = [k \in (1..MaxKeys) \cup {r.api_key : r \in rows} |->
                    IF \E r \in rows : r.api_key = k
                    THEN (CHOOSE r \in rows : r.api_key = k).user_id ELSE 0]
    /\ rotated = {}
    /\ lastChat = [u \in Operators |->
                        IF \E r \in rows : r.user_id = u
                        THEN (CHOOSE r \in rows : r.user_id = u).chat_id ELSE 0]

\* First start: init_database has just created the tables.
Boot(zones) == Start(zones, {})

\* The users table of a deployment in which operator 2 registered during an
\* earlier run of the processes, with a key of that run.
Registered ==
    {[user_id |-> 2, api_key |-> -1, chat_id |-> 10, created_at |-> 0, last_active |-> 0]}

\* A restart on the database file of an earlier run.
InitRestart == Start({0}, Registered)

\* The deployment on a host that keeps UTC.
Init == Boot({0})

\* The deployment on a host in any of the time zones.
InitZone == Boot(TZOffsets)

(* ------------------------------ the clock ------------------------------ *)

Tick ==
    /\ clock < MaxClock
    /\ clock' = clock + 1
    /\ UNCHANGED <<users, log, tz, nkeys, api, bot, hist>>

(* ------------------------------ API server ----------------------------- *)

\* A request arrives: POST /api/notify, GET /api/validate or POST /api/heartbeat.
ApiRequest(ops, bodies) ==
    /\ apc = "idle"
    /\ \E op \in ops, k \in 0..nkeys, body \in bodies :
        /\ op = "notify" => Len(log) + 2 <= MaxLog
        /\ op # "notify" => body = NoBody
        /\ req' = [op |-> op, key |-> k, message |-> body.message,
                   metadata |-> body.metadata]
    /\ apc' = "auth"
    /\ log0' = Len(log)
    /\ path' = <<"AUTHENTICATING">>
    /\ UNCHANGED <<store, env, user, success, resp, outbox, attempts, writes, hauth, bot,
                   hist>>

\* get_current_user -> get_user_by_api_key: the SELECT and fetchone; an unknown
\* key ends the request with 401.
AuthSelect ==
    /\ apc = "auth"
    /\ LET result == SelectByKey(users, req.key) IN
        IF result = {}
        THEN /\ resp' = HTTPException(401)
             /\ apc' = "done"
             /\ user' = NoUser
             /\ path' = Append(path, "RESPONDING")
        ELSE LET r == CHOOSE x \in result : TRUE IN
             /\ user' = UserDict(r)
             /\ apc' = "touch"
             /\ UNCHANGED <<resp, path>>
    /\ hauth' = Observed(req.key)
    /\ UNCHANGED <<store, env, req, success, outbox, attempts, writes, log0, bot, hist>>

\* get_user_by_api_key: UPDATE last_active and commit; validate and heartbeat
\* then answer.
AuthTouch ==
    /\ apc = "touch"
    /\ users' = TouchByKey(users, req.key, Now)
    /\ IF req.op = "notify"
       THEN apc' = "send" /\ path' = Append(path, "AUTHENTICATED") /\ UNCHANGED resp
       ELSE /\ apc' = "done"
            /\ path' = path \o <<"AUTHENTICATED", "RESPONDING">>
            /\ resp' = IF req.op = "validate"
                       THEN ApiResponse(TRUE, [user_id |-> user.user_id,
                                               last_active |-> user.last_active])
                       ELSE ApiResponse(TRUE, NoData)
    /\ UNCHANGED <<log, env, req, user, success, outbox, attempts, writes, log0, hauth,
                   bot, hist>>

\* send_notification: await send_telegram_message(user["chat_id"], request.message);
\* an exception leaving the call would land in the except block.
Send ==
    /\ apc = "send"
    /\ \E o \in PlatformOutcomes :
        LET result == send_telegram_message(o) IN
        /\ success' = result.value
        /\ outbox' = [chat_id |-> user.chat_id, text |-> FormatMessage(req.message),
                      outcome |-> o]
        /\ apc' = IF result.raised = "none" THEN AfterSend(result.value) ELSE "except"
        /\ path' = path \o IF result.raised # "none" THEN <<"DELIVERING">>
                            ELSE IF result.value THEN <<"DELIVERING", "DELIVERED">>
                            ELSE <<"DELIVERING", "DELIVERY_FAILED">>
    /\ attempts' = attempts + 1
    /\ UNCHANGED <<store, env, req, user, resp, writes, log0, hauth, bot, hist>>

\* send_notification, inside try: log_notification, then the success envelope
\* or raise HTTPException(500). The storage write may raise.
LogTry ==
    /\ apc = "log"
    /\ \E written \in BOOLEAN :
        /\ writes' = Append(writes, written)
        /\ log' = IF written
                  THEN log_notification(log, user.user_id, req.message, req.metadata,
                                        NotifyStatus(success))
                  ELSE log
        /\ IF TryOutcome(written, success) = "return"
           THEN resp' = ApiResponse(TRUE, NoData) /\ apc' = "done"
           ELSE IF ExceptCatches(TryOutcome(written, success))
                THEN apc' = "except" /\ UNCHANGED resp
                ELSE resp' = HTTPException(500) /\ apc' = "done"
        /\ path' = path \o (IF written THEN <<"LOGGED">> ELSE <<>>)
                        \o (IF TryOutcome(written, success) = "return"
                               \/ ~ExceptCatches(TryOutcome(written, success))
                            THEN <<"RESPONDING">> ELSE <<>>)
    /\ UNCHANGED <<users, env, req, user, success, outbox, attempts, log0, hauth, bot,
                   hist>>

\* send_notification, the except block: log_notification(..., "error"), then
\* raise HTTPException(500); a write that raises here surfaces as a 500 too.
LogExcept ==
    /\ apc = "except"
    /\ \E written \in BOOLEAN :
        /\ writes' = Append(writes, written)
        /\ log' = IF written
                  THEN log_notification(log, user.user_id, req.message, req.metadata,
                                        "error")
                  ELSE log
        /\ path' = path \o (IF written THEN <<"LOGGED">> ELSE <<>>) \o <<"RESPONDING">>
    /\ resp' = HTTPException(500)
    /\ apc' = "done"
    /\ UNCHANGED <<users, env, req, user, success, outbox, attempts, log0, hauth, bot,
                   hist>>

\* The response leaves the server; the handler's locals are gone.
ApiRespond ==
    /\ apc = "done"
    /\ apc' = "idle"
    /\ req' = NoReq
    /\ user' = NoUser
    /\ success' = FALSE
    /\ resp' = NoResp
    /\ outbox' = NoSend
    /\ attempts' = 0
    /\ writes' = <<>>
    /\ log0' = 0
    /\ path' = <<>>
    /\ hauth' = NoAuth
    /\ UNCHANGED <<store, env, bot, hist>>

(* --------------------------------- bot --------------------------------- *)

\* Inserts that workers between SELECT and INSERT are about to make.
PendingInserts == Cardinality({b \in Bots : bpc[b] = "gocu" /\ bsel[b] = 0})

\* /start arrives: get_or_create_user runs its SELECT.
StartSelect(b, ops, chats) ==
    /\ bpc[b] = "idle"
    /\ \E u \in ops, c \in chats :
        /\ SelectKeyByUser(users, u) = 0 => nkeys + PendingInserts < MaxKeys
        /\ bcmd' = [bcmd EXCEPT ![b] = [cmd |-> "start", user_id |-> u, chat_id |-> c]]
        /\ bsel' = [bsel EXCEPT ![b] = SelectKeyByUser(users, u)]
    /\ bpc' = [bpc EXCEPT ![b] = "gocu"]
    /\ UNCHANGED <<store, env, api, bres, hist>>

\* get_or_create_user, known user: UPDATE chat_id and last_active, return the
\* key read by the SELECT; the with block commits on the way out.
GocuUpdate(b) ==
    /\ bpc[b] = "gocu"
    /\ bsel[b] # 0
    /\ users' = ConnExit(users,
                         UpdateChat(users, bcmd[b].user_id, bcmd[b].chat_id, Now), FALSE)
    /\ bres' = [bres EXCEPT ![b] = [cmd |-> "start", user_id |-> bcmd[b].user_id,
                                    chat_id |-> bcmd[b].chat_id, key |-> bsel[b],
                                    new |-> FALSE, ok |-> TRUE]]
    /\ lastChat' = [lastChat EXCEPT ![bcmd[b].user_id] = bcmd[b].chat_id]
    /\ bpc' = [bpc EXCEPT ![b] = "reply"]
    /\ bcmd' = [bcmd EXCEPT ![b] = NoCmd]
    /\ bsel' = [bsel EXCEPT ![b] = 0]
    /\ UNCHANGED <<log, env, api, owner, rotated>>

\* get_or_create_user, unknown user: generate a key, INSERT, commit. An
\* IntegrityError leaves the table as it was and the command without a reply.
GocuInsert(b) ==
    /\ bpc[b] = "gocu"
    /\ bsel[b] = 0
    /\ LET key == generate_api_key(nkeys)
           u == bcmd[b].user_id
           after == InsertUser(users, u, key, bcmd[b].chat_id, CurrentTimestamp)
           inserted == after # users
       IN /\ users' = after
          /\ nkeys' = nkeys + 1
          /\ bres' = [bres EXCEPT ![b] = [cmd |-> "start", user_id |-> u,
                                          chat_id |-> bcmd[b].chat_id,
                                          key |-> IF inserted THEN key ELSE 0,
                                          new |-> TRUE, ok |-> inserted]]
          /\ owner' = IF inserted THEN [owner EXCEPT ![key] = u] ELSE owner
          /\ lastChat' = IF inserted THEN [lastChat EXCEPT ![u] = bcmd[b].chat_id]
                         ELSE lastChat
    /\ bpc' = [bpc EXCEPT ![b] = "reply"]
    /\ bcmd' = [bcmd EXCEPT ![b] = NoCmd]
    /\ UNCHANGED <<log, clock, tz, api, bsel, rotated>>

\* /revoke: generate a key, UPDATE api_key and last_active, commit, reply the key.
Revoke(b, ops) ==
    /\ bpc[b] = "idle"
    /\ nkeys + PendingInserts < MaxKeys
    /\ \E u \in ops :
        LET key == generate_api_key(nkeys)
            old == {r.api_key : r \in {x \in users : x.user_id = u}}
        IN /\ users' = UpdateApiKey(users, u, key, Now)
           /\ bres' = [bres EXCEPT ![b] = [cmd |-> "revoke", user_id |-> u, chat_id |-> 0,
                                           key |-> key, new |-> FALSE, ok |-> TRUE]]
           /\ owner' = IF old # {} THEN [owner EXCEPT ![key] = u] ELSE owner
           /\ rotated' = rotated \cup old
    /\ nkeys' = nkeys + 1
    /\ bpc' = [bpc EXCEPT ![b] = "reply"]
    /\ UNCHANGED <<log, clock, tz, api, bcmd, bsel, lastChat>>

\* await update.message.reply_text(...): the key goes back to the operator and
\* the handler returns (a handler that raised returns without replying).
Reply(b) ==
    /\ bpc[b] = "reply"
    /\ bpc' = [bpc EXCEPT ![b] = "idle"]
    /\ bres' = [bres EXCEPT ![b] = NoRes]
    /\ UNCHANGED <<store, env, api, bcmd, bsel, hist>>

(* ---------------------------- specifications --------------------------- *)

ApiNext(bodies) ==
    ApiRequest(Ops, bodies) \/ AuthSelect \/ AuthTouch \/ Send \/ LogTry \/ LogExcept
        \/ ApiRespond

\* The endpoints that only authenticate: GET /api/validate, POST /api/heartbeat.
ProbeNext == ApiRequest(Probes, {NoBody}) \/ AuthSelect \/ AuthTouch \/ ApiRespond

BotNext(b, ops, chats) ==
    StartSelect(b, ops, chats) \/ GocuUpdate(b) \/ GocuInsert(b) \/ Revoke(b, ops)
        \/ Reply(b)

\* The deployment: one API server and one bot process on one database file,
\* within one reading of the clock.
Next == ApiNext({NoBody}) \/ BotNext("b1", Operators, {10})

Spec == Init /\ [][Next]_vars

\* The deployment over time, for the endpoints that only authenticate.
NextTime == Tick \/ ProbeNext \/ BotNext("b1", Operators, {10})

SpecTime == Init /\ [][NextTime]_vars

\* The deployment over time on hosts in several time zones.
SpecZone == InitZone /\ [][NextTime]_vars

\* The deployment over time, restarted on the database file of an earlier run.
SpecRestart == InitRestart /\ [][NextTime]_vars

\* The deployment with every request body a caller may post.
NextBodies == ApiNext(Bodies) \/ BotNext("b1", {1}, {10})

SpecBodies == Init /\ [][NextBodies]_vars

\* A request being handled: the handler runs on the event loop until it
\* returns or raises; every call it makes returns within its timeout
\* (requests.post: 10 s, sqlite3.connect: 5 s).
Handle == AuthSelect \/ AuthTouch \/ Send \/ LogTry \/ LogExcept

\* The deployment, with handlers that are scheduled until they finish.
SpecLive == Init /\ [][Next]_vars /\ WF_vars(Handle)

\* The deployment, with an operator who talks to the bot from several chats.
NextChat == Tick \/ ApiNext({NoBody}) \/ BotNext("b1", {1}, Chats)

SpecChat == Init /\ [][NextChat]_vars

\* Two bot workers polling against the same database file.
NextConc == ApiNext({NoBody}) \/ \E b \in Bots : BotNext(b, Operators, {10})

SpecConc == Init /\ [][NextConc]_vars

(* ------------------------------- claims -------------------------------- *)

\* A notify request that has been answered (the response is still in hand).
NotifyDone == apc = "done" /\ req.op = "notify"

\* The rows the current request has added to the notifications table.
Added == SubSeq(log, log0 + 1, Len(log))

\* C1: a notify call with a resolving key, whose delivery is reported
\* Delivered and whose log write succeeds, answers 200 with success true and
\* has added exactly one row, carrying the authenticated operator and the
\* status "sent".
C1_DeliveredIsSent ==
    (NotifyDone /\ hauth.row_user # 0 /\ success /\ writes = <<TRUE>>) =>
        /\ resp.status = 200
        /\ resp.success
        /\ Len(Added) = 1
        /\ Added[1].user_id = hauth.row_user
        /\ Added[1].status = "sent"

C1_Witness ==
    /\ NotifyDone /\ hauth.row_user = 2 /\ success /\ writes = <<TRUE>>
    /\ resp.status = 200 /\ Len(Added) = 1 /\ Added[1].user_id = 2

\* C2 (as claimed): a notify call with a resolving key whose delivery is
\* reported Unreachable, and whose log writes all succeed, answers with a 500
\* and has added exactly one row, with status "failed".
C2_UnreachableOneFailed ==
    (NotifyDone /\ hauth.row_user # 0 /\ attempts = 1 /\ ~success
        /\ \A i \in 1..Len(writes) : writes[i]) =>
        /\ resp.status = 500
        /\ Len(Added) = 1
        /\ Added[1].status = "failed"

\* C3: a notify call whose key resolves to no row at its lookup is answered
\* 401 by that lookup, adds no row to the notifications table and makes no
\* call to the messaging platform.
C3_InvalidKeyRejected ==
    (req.op = "notify" /\ hauth.sel = "done" /\ hauth.row_user = 0) =>
        /\ apc = "done"
        /\ resp.status = 401
        /\ ~resp.success
        /\ Added = <<>>
        /\ attempts = 0
        /\ outbox = NoSend

C3_Witness ==
    /\ NotifyDone /\ hauth.row_user = 0 /\ hauth.revoked
    /\ resp.status = 401 /\ users # {} /\ log = <<>>

\* The rows of operator u, and the key the history says u holds now.
RowsOf(tbl, u) == {r \in tbl : r.user_id = u}
HeldKeys(u) == {k \in 1..MaxKeys : Holder(k) = u}

\* C4: a key resolves to the operator it was stored for as long as no
\* rotation has overwritten it, and to nobody ever after: no row carries a
\* rotated key, and a request whose lookup presents one is answered 401.
C4_RotatedKeyNeverResolves ==
    /\ \A k \in 1..MaxKeys :
        /\ Holder(k) # 0 => {r.user_id : r \in SelectByKey(users, k)} = {Holder(k)}
        /\ k \in rotated => SelectByKey(users, k) = {}
    /\ (hauth.sel = "done" /\ hauth.revoked) => (apc = "done" /\ resp.status = 401)
    /\ (hauth.sel = "done" /\ hauth.hist_user # 0) =>
            (user.user_id = hauth.hist_user /\ resp.status # 401)

C4_Witness ==
    /\ apc = "done" /\ req.op = "validate" /\ hauth.revoked /\ resp.status = 401
    /\ \E r \in users : r.user_id = owner[req.key] /\ r.api_key # req.key

\* C5: in the users table no api_key value is carried by rows of two
\* operators, and every operator that has registered has exactly one row
\* (one stored key); nobody else has a row.
C5_OneKeyPerOperator ==
    /\ \A r1, r2 \in users : r1.api_key = r2.api_key => r1.user_id = r2.user_id
    /\ \A u \in Operators :
        Cardinality(RowsOf(users, u)) = IF \E k \in 1..MaxKeys : owner[k] = u THEN 1 ELSE 0

C5_Witness ==
    /\ \E b \in Bots : bpc[b] = "reply" /\ bres[b].new /\ ~bres[b].ok
    /\ Cardinality(users) = 1

\* C6: a notify call that answers success true has added its row to the
\* notifications table, and a notify call in which a log write failed answers
\* 500 without success.
C6_SuccessImpliesLogged ==
    /\ (NotifyDone /\ resp.success) =>
        /\ Len(Added) >= 1
        /\ Added[1].user_id = hauth.row_user
        /\ Added[1].message = req.message
    /\ (NotifyDone /\ \E i \in 1..Len(writes) : ~writes[i]) =>
        (resp.status = 500 /\ ~resp.success)

C6_Witness ==
    NotifyDone /\ success /\ writes = <<FALSE, TRUE>> /\ resp.status = 500

\* C7: validate called with a key that a rotation produced, and that is the
\* operator's key at the lookup, answers 200 with the operator_id the
\* operator had before the rotation.
C7_ValidateAfterRotation ==
    (req.op = "validate" /\ hauth.sel = "done" /\ hauth.renewed) =>
        \/ apc = "touch"
        \/ /\ apc = "done"
           /\ resp.status = 200
           /\ resp.success
           /\ resp.data.user_id = hauth.hist_user
           /\ \E j \in rotated : owner[j] = resp.data.user_id

C7_Witness ==
    /\ apc = "done" /\ req.op = "validate" /\ hauth.renewed
    /\ resp.status = 200 /\ resp.data.user_id = 2

\* A row without its last_active column.
Frame(tbl) ==
    {[user_id |-> r.user_id, api_key |-> r.api_key, chat_id |-> r.chat_id,
      created_at |-> r.created_at] : r \in tbl}

\* C8: no step of a validate or heartbeat request changes anything in the
\* users table but last_active, adds a row to the notifications table or
\* calls the messaging platform.
C8_HeartbeatValidateFrame ==
    [][(apc' # apc /\ (req.op \in {"validate", "heartbeat"}
                        \/ req'.op \in {"validate", "heartbeat"})) =>
            /\ Frame(users') = Frame(users)
            /\ log' = log
            /\ attempts' = 0
            /\ outbox' = NoSend]_vars

C8_Witness ==
    /\ apc = "done" /\ req.op = "heartbeat" /\ resp.status = 200
    /\ \E r \in users : r.api_key = req.key /\ r.created_at = 0 /\ r.last_active = 1

\* The step on which worker b's /start for an already registered operator
\* writes and returns.
TouchStep(b) == bpc[b] = "gocu" /\ bsel[b] # 0 /\ bpc'[b] = "reply"

\* C9: /start for an already registered operator replies with the key the
\* operator already holds (the one stored at registration or by the last
\* rotation) and leaves it stored, commits the supplied chat id and
\* last_active = now; a notify whose lookup comes later sends to that chat.
C9_TouchKeepsKeySetsChat ==
    [][/\ \A b \in Bots : TouchStep(b) =>
            LET u == bcmd[b].user_id IN
            /\ bres'[b].ok
            /\ {bres'[b].key} = {r.api_key : r \in RowsOf(users, u)}
            /\ {bres'[b].key} = {r.api_key : r \in RowsOf(users', u)}
            /\ {bres'[b].key} = HeldKeys(u)
            /\ {r.chat_id : r \in RowsOf(users', u)} = {bcmd[b].chat_id}
            /\ {r.last_active : r \in RowsOf(users', u)} = {Now}
       /\ (apc = "send" /\ apc' # "send") =>
            (hauth.hist_chat # 0 /\ outbox'.chat_id = hauth.hist_chat)]_vars

C9_Witness ==
    /\ bpc["b1"] = "reply" /\ bres["b1"].cmd = "start" /\ ~bres["b1"].new
    /\ bres["b1"].chat_id = 20
    /\ \E r \in users : r.chat_id = 20 /\ r.api_key = bres["b1"].key
    /\ apc = "log" /\ outbox.chat_id = 10

\* C10: a notify call with a resolving key calls the messaging platform
\* exactly once on every path to its response, and no request calls it twice.
C10_OneSendPerNotify ==
    /\ attempts <= 1
    /\ apc \in {"log", "except"} => attempts = 1
    /\ (NotifyDone /\ hauth.row_user # 0) => attempts = 1

C10_Witness ==
    NotifyDone /\ attempts = 1 /\ ~success /\ writes = <<TRUE, FALSE>> /\ Len(Added) = 1

\* C11 (as claimed): a notify call with a resolving key has called
\* log_notification exactly once when it responds, whichever branch it took,
\* and a notify call whose key does not resolve has not called it at all.
C11_LogAttemptedOnce ==
    NotifyDone => Len(writes) = IF hauth.row_user # 0 THEN 1 ELSE 0

\* C12: when a fault is raised inside the try block of an authenticated
\* notify call (the storage write raising; the send call lets nothing out),
\* the call tries once more to record the notification, with status "error",
\* and responds 500 whether or not that record could be written.
C12_FaultLogsError ==
    (NotifyDone /\ Len(writes) >= 1 /\ ~writes[1]) =>
        /\ Len(writes) = 2
        /\ resp.status = 500
        /\ ~resp.success
        /\ IF writes[2]
           THEN /\ Len(Added) = 1
                /\ Added[1].status = "error"
                /\ Added[1].user_id = hauth.row_user
                /\ Added[1].message = req.message
           ELSE Added = <<>>

C12_Witness ==
    /\ NotifyDone /\ writes = <<FALSE, TRUE>> /\ resp.status = 500
    /\ Len(Added) = 1 /\ Added[1].status = "error" /\ Added[1].user_id = 1

\* C13 (as claimed): no row of the notifications table has the empty string
\* as its message, whatever bodies the notify requests carried.
C13_MessageNonEmpty == \A i \in 1..Len(log) : log[i].message # ""

\* C14: every step leaves the notifications table as it was or appends rows
\* to it: the rows already there stay, unchanged and in place, and each new
\* row gets an id greater than every id before it.
C14_LogAppendOnly ==
    [][/\ Len(log') >= Len(log)
       /\ SubSeq(log', 1, Len(log)) = log
       /\ \A i \in (Len(log) + 1)..Len(log') :
            \A j \in 1..(i - 1) : log'[i].id > log'[j].id]_vars

C14_Witness ==
    /\ Len(log) = 2 /\ log[1].id < log[2].id
    /\ log[1].status = "failed" /\ log[2].status = "error"

\* C15 (as claimed): once a rotation has committed, no lookup hands the
\* operator back for the key it overwrote: no notify, validate or heartbeat
\* leaves get_user_by_api_key authenticated with a rotated key.
C15_RotationAtomic ==
    [][(apc = "touch" /\ apc' # "touch") => req.key \notin rotated]_vars

\* C16 (as claimed): two /start commands of the same operator, handled by two
\* workers at once, both end without error and reply the same key, and the
\* operator has exactly one row.
C16_RegisterAtomic ==
    \A a, b \in Bots :
        (/\ a # b
         /\ bpc[a] = "reply" /\ bres[a].cmd = "start"
         /\ bpc[b] = "reply" /\ bres[b].cmd = "start"
         /\ bres[a].user_id = bres[b].user_id) =>
            /\ bres[a].ok /\ bres[b].ok
            /\ bres[a].key = bres[b].key
            /\ Cardinality(RowsOf(users, bres[a].user_id)) = 1

\* Position of a request state in the order of the notify state machine; the
\* two delivery results share a position.
Rank(state) ==
    CASE state = "AUTHENTICATING" -> 1
      [] state = "AUTHENTICATED" -> 2
      [] state = "DELIVERING" -> 3
      [] state \in {"DELIVERED", "DELIVERY_FAILED"} -> 4
      [] state = "LOGGED" -> 5
      [] state = "RESPONDING" -> 6

\* C17 (as claimed): the states a notify request enters come in the order
\* AUTHENTICATING, AUTHENTICATED, DELIVERING, DELIVERED or DELIVERY_FAILED,
\* LOGGED, RESPONDING, and none is entered twice.
C17_StateOrder ==
    req.op = "notify" =>
        \A i \in 1..(Len(path) - 1) : Rank(path[i]) < Rank(path[i + 1])

\* C18: every request that has arrived gets its response, whatever the
\* messaging platform does, and the response it got is never replaced by
\* another one.
C18_EveryRequestAnswered ==
    /\ [](apc = "auth" => <>(apc = "done"))
    /\ [][resp # NoResp => resp' \in {resp, NoResp}]_vars

C18_Witness ==
    /\ NotifyDone /\ outbox.outcome = "timeout" /\ attempts = 1
    /\ resp.status = 500 /\ Len(writes) = 2

\* C19: the send call always returns: True exactly when the platform
\* answered 200, False on any other answer, on a refused connection and on
\* a timeout; the except block of send_notification is never entered by an
\* exception of the send call.
C19_DeliverNeverRaises ==
    /\ outbox # NoSend => (success <=> outbox.outcome = "200")
    /\ outbox # NoSend =>
        \E i \in 1..Len(path) : path[i] = IF outbox.outcome = "200" THEN "DELIVERED"
                                          ELSE "DELIVERY_FAILED"
    /\ apc = "except" => writes # <<>>

C19_Witness ==
    /\ apc = "log" /\ outbox.outcome = "refused" /\ ~success
    /\ path[Len(path)] = "DELIVERY_FAILED"

\* C20 (as claimed): every step that writes an operator's row (registration,
\* touch by /start, rotation, touch by a key lookup) leaves last_active at the
\* time of the step, and no step makes an operator's last_active smaller.
C20_LastActiveIsNow ==
    [][/\ \A r \in users' : r \notin users => r.last_active = Now
       /\ \A u \in Operators : \A r1 \in RowsOf(users, u), r2 \in RowsOf(users', u) :
            r2.last_active >= r1.last_active]_vars

\* C21: no step removes a row of the users table or changes the user_id or
\* the created_at of a row that is there.
C21_OperatorKept ==
    [][\A r \in users :
        \E r2 \in users' : r2.user_id = r.user_id /\ r2.created_at = r.created_at]_vars

C21_Witness ==
    /\ \E r \in users : /\ r.created_at = 0 /\ r.last_active = 1
                         /\ r.chat_id = 20 /\ r.api_key = 2
    /\ Len(log) >= 1

\* C22 (as claimed): the metadata column of every row a notify request has
\* added holds the metadata the request supplied: NULL when it supplied
\* null, the JSON text of the value otherwise, the empty object included.
C22_MetadataPassedThrough ==
    NotifyDone =>
        \A i \in 1..Len(Added) :
            Added[i].metadata = IF req.metadata = "None" THEN <<"NULL">>
                                ELSE <<"json", req.metadata>>

\* The step on which worker b's /revoke writes and returns.
RevokeStep(b) == bpc[b] = "idle" /\ bpc'[b] = "reply" /\ bres'[b].cmd = "revoke"

\* C23: /revoke from an operator without a row leaves both tables as they
\* were and still replies a new key; no row carries a key handed out that
\* way, and a request whose lookup presents one is answered 401.
C23_RevokeUnregistered ==
    [][/\ \A b \in Bots :
            (RevokeStep(b) /\ RowsOf(users, bres'[b].user_id) = {}) =>
                /\ users' = users
                /\ log' = log
                /\ bres'[b].ok
                /\ bres'[b].key >= 1
                /\ owner'[bres'[b].key] = 0
       /\ \A k \in 1..MaxKeys :
            (k <= nkeys' /\ owner'[k] = 0) => {r \in users' : r.api_key = k} = {}
       /\ (hauth'.sel = "done" /\ req'.key >= 1 /\ owner'[req'.key] = 0) =>
            (apc' = "done" /\ resp'.status = 401)]_vars

C23_Witness ==
    /\ apc = "done" /\ resp.status = 401 /\ req.key = 1 /\ owner[1] = 0
    /\ hauth.sel = "done" /\ ~hauth.revoked /\ users = {}

\* C24: a validate that answers 200 returns the last_active its SELECT read,
\* not the time of the call, and its touch leaves the row with
\* last_active = now.
C24_ValidateReturnsPrevious ==
    [][(apc = "touch" /\ apc' = "done" /\ req.op = "validate") =>
            /\ resp'.status = 200
            /\ resp'.data.last_active = hauth.row_active
            /\ \A r \in {x \in users' : x.api_key = req.key} :
                    r.last_active = Now]_vars

C24_Witness ==
    /\ apc = "done" /\ req.op = "validate" /\ resp.status = 200
    /\ resp.data.last_active = 0
    /\ \E r \in users : r.api_key = req.key /\ r.last_active = 1

\* C25: every row of the notifications table carries the user_id of an
\* operator that has a row in the users table; the rows a request adds carry
\* the user_id its lookup read; and its send goes to the chat_id that lookup
\* read, whatever the bot commits between the lookup and the log write.
C25_LogRefersToOperator ==
    /\ \A i \in 1..Len(log) : RowsOf(users, log[i].user_id) # {}
    /\ hauth.sel = "done" => \A i \in 1..Len(Added) : Added[i].user_id = hauth.row_user
    /\ outbox # NoSend => outbox.chat_id = hauth.row_chat

C25_Witness ==
    /\ NotifyDone /\ Len(Added) >= 1 /\ req.key \in rotated
    /\ outbox.chat_id = 10
    /\ \E r \in users : r.user_id = Added[1].user_id /\ r.chat_id = 20

\* C26: no step of a request whose lookup found no row for its key changes
\* the users table or the notifications table; the lookup ends it with 401.
C26_UnresolvedKeyFrame ==
    [][(apc' # apc /\ hauth'.sel = "done" /\ hauth'.row_user = 0) =>
            /\ users' = users
            /\ log' = log
            /\ apc' = "done"
            /\ resp'.status = 401]_vars

C26_Witness ==
    /\ apc = "done" /\ resp.status = 401 /\ hauth.sel = "done" /\ hauth.row_user = 0
    /\ clock = 1
    /\ \E r \in users : r.last_active = 0

\* The columns of a row that a rotation leaves alone.
Kept(tbl) ==
    {[user_id |-> r.user_id, chat_id |-> r.chat_id, created_at |-> r.created_at]
        : r \in tbl}

\* C27: /revoke from an operator with a row writes the replied key and
\* last_active = now into that row and nothing else: the row's user_id,
\* chat_id and created_at, the rows of the other operators and the
\* notifications table stay as they were.
C27_RotateFrame ==
    [][\A b \in Bots :
        (RevokeStep(b) /\ RowsOf(users, bres'[b].user_id) # {}) =>
            LET u == bres'[b].user_id IN
            /\ log' = log
            /\ {r \in users' : r.user_id # u} = {r \in users : r.user_id # u}
            /\ Kept(RowsOf(users', u)) = Kept(RowsOf(users, u))
            /\ \A r \in RowsOf(users', u) :
                    r.api_key = bres'[b].key /\ r.last_active = Now]_vars

C27_Witness ==
    /\ bpc["b1"] = "reply" /\ bres["b1"].cmd = "revoke" /\ bres["b1"].user_id = 1
    /\ Cardinality(users) = 2
    /\ \E r \in users : /\ r.user_id = 1 /\ r.api_key = bres["b1"].key
                         /\ r.chat_id = 10 /\ r.created_at = 0 /\ r.last_active = 1

TypeOK ==
    /\ UsersConstraints(users)
    /\ apc \in {"idle", "auth", "touch", "send", "log", "except", "done"}
    /\ nkeys \in 0..MaxKeys
    /\ Len(log) <= MaxLog
====
